---- MODULE Spec2Model ----
(***************************************************************************)
(* Model of the SSE event source (package sse, type eventSource): the      *)
(* connection lifecycle, the decode-and-deliver task, the reconnect loop   *)
(* and Close().  Every goroutine is a process with a program counter; a    *)
(* step is one access to the shared state of the eventSource struct.       *)
(* The HTTP server and the stream it sends are the environment: each       *)
(* request and each Decode() draws its outcome from a small set.           *)
(* es.resp, es.d and es.retry are read and written without a lock; the     *)
(* model makes each such access one step, so a reader sees the value of    *)
(* the latest write in the interleaving, and two reads of one field in one *)
(* statement may see different values.  A runtime panic (send on or close  *)
(* of a closed channel, nil es.resp) ends the program.                     *)
(***************************************************************************)
EXTENDS Integers, Sequences, FiniteSets, TLC

\* ---- bounds ----
MaxAttempts == 2      \* requests of one source that end (a later one gets no answer)
MaxDecodes  == 2      \* events decoded successfully over all connections

\* ---- program constants ----
defaultRetry    == 1000   \* milliseconds
StatusNoContent == 204

\* ReadyState values
Connecting == "Connecting"
Open       == "Open"
Closing    == "Closing"
Closed     == "Closed"

\* error values
ErrNil           == "nil"
ErrContentType   == "ErrContentType"
ErrUnexpectedEOF == "ErrUnexpectedEOF"
ErrEOF           == "EOF"
ErrOther         == "ErrOther"
ErrBodyClosed    == "ErrBodyClosed"      \* a read of a body after its Close()

\* es.resp == nil
NoResp == [id |-> 0, status |-> 0]
\* the request carried no Last-Event-ID header
NoHeader == "<absent>"

\* ---- processes ----
Ctor     == 0                                   \* the goroutine that calls NewEventSource
Tasks    == 1 .. MaxAttempts                    \* goroutines started by "go es.consume()"
Closers  == {MaxAttempts + 1}                    \* the user goroutine that may call Close()
Procs    == {Ctor} \cup Tasks \cup Closers

\* ---- what a stream can carry ----
EventIDs    == {"", "1", "2"}
RetryDelays == {0, 2000}
Messages    == [retry : {-1}, ID : EventIDs]
Directives  == [retry : RetryDelays, ID : {""}]
DecodeErrs  == {ErrEOF, ErrUnexpectedEOF, ErrOther}
ReadErrs    == DecodeErrs \cup {ErrBodyClosed}

VARIABLES
  readyState,    \* es.readyState
  resp,          \* es.resp: the last response, or NoResp
  d,             \* es.d: id of the response whose body the decoder reads (0: nil)
  retry,         \* es.retry, in milliseconds
  lastEventID,   \* es.lastEventID
  outClosed,     \* es.out has been closed
  pc,            \* position of every process
  err,           \* the local err of reconnect in every process, while the code reads it
  ev,            \* the event a process is blocked sending on es.out
  clret,         \* where Close() returns to in every process
  ctorErr,       \* the err of connect: what NewEventSource returns when pc[Ctor] is "done"
  body,          \* per goroutine in connectOnce: id of the response its new decoder reads (0: none)
  rd,            \* per decode task in Decode: the values es.d has held since it finished its last step
  decoders,      \* ids of the responses a decoder has been made for
  noContent,     \* ids of the responses with status 204 (their body is empty)
  released,      \* ids of the responses whose Body.Close() has been called
  loaded,        \* per goroutine in Close: id of the response it loaded from es.resp at Body.Close() (0: none)
  received,      \* the values the consumer has received from Events()
  panic,         \* "none", or the runtime panic that killed the program
  hist           \* observations of the run (counters, last request, ...)

vars == <<readyState, resp, d, retry, lastEventID, outClosed, pc, err, ev, clret,
          ctorErr, body, rd, decoders, noContent, released, loaded, received, panic, hist>>

\* an event in flight, with the id of the response it was decoded from
Tagged(e, b) == [retry |-> e.retry, ID |-> e.ID, from |-> b]

Untagged(t) == [retry |-> t.retry, ID |-> t.ID]

NoEvent == Tagged([retry |-> -1, ID |-> ""], 0)

\* ---- pure functions of the code ----

\* eventSource.setReadyState: the value of es.readyState after the call
setReadyState_NoGuard(cur, new) == new

setReadyState(cur, new) == IF cur = Closed THEN cur ELSE new

\* eventSource.acquireClosingRight: does the caller get the closing right
acquireClosingRight(cur) == ~(cur = Closed \/ cur = Closing)

\* eventSource.mustReconnect(err), reading es.resp
mustReconnect_NoRetry(e, r) ==
  IF e \notin {ErrNil, ErrUnexpectedEOF} THEN FALSE
  ELSE ~(r # NoResp /\ r.status = StatusNoContent)

mustReconnect(e, r) ==
  IF e = ErrContentType THEN FALSE
  ELSE IF e = ErrUnexpectedEOF THEN TRUE
  ELSE IF r # NoResp /\ r.status = StatusNoContent THEN FALSE
  ELSE TRUE

\* eventSource.mustReconnect: "es.resp != nil && es.resp.StatusCode == ..." reads
\* es.resp twice; the second read is made when the error is neither case of the
\* switch and the first read found a response
ReadsStatus(e, r) == e \notin {ErrContentType, ErrUnexpectedEOF} /\ r # NoResp

\* consume: "if ev.retry >= 0" tells a retry directive from a message
IsRetry_Positive(e) == e.retry > 0

IsRetry(e) == e.retry >= 0

\* consume: "es.retry = time.Duration(ev.retry) * time.Millisecond"
RetryAfterDirective(cur, e) == e.retry

\* consume: "if ev.ID != "" { es.setLastEventID(ev.ID) }"
NewLastEventID_Unconditional(cur, e) == e.ID

NewLastEventID(cur, e) == IF e.ID # "" THEN e.ID ELSE cur

\* reconnect: "time.Sleep(es.retry)": the wait, in milliseconds
SleepDuration(r) == r

\* consume, on a Decode error: reconnect first when the error is retryable,
\* Close() at once when it is terminal
AfterDecodeError(e, r) == IF mustReconnect(e, r) THEN "r_start" ELSE "cl_acquire"

\* doHttpConnect: the Last-Event-ID header of the request it builds
\* (it sets Accept and Cache-Control only)
RequestLastEventID(lastID) == NoHeader

\* what the server can answer to one request: status 0 is a transport error
Outcomes == {[status |-> 0, ctype |-> FALSE]}
              \cup [status : {200, StatusNoContent}, ctype : BOOLEAN]

\* doHttpConnect: the error it returns for an outcome
ConnectErr(o) ==
  IF o.status = 0 THEN ErrOther
  ELSE IF ~o.ctype THEN ErrContentType
  ELSE ErrNil

\* the first goroutine slot not yet used by "go es.consume()"
NextTask == CHOOSE t \in Tasks : pc[t] = "unborn" /\ \A u \in Tasks : pc[u] = "unborn" => t <= u

\* NewEventSource: the struct literal
Init ==
  /\ readyState = Connecting
  /\ resp = NoResp
  /\ d = 0
  /\ retry = defaultRetry
  /\ lastEventID = ""
  /\ outClosed = FALSE
  /\ pc = [p \in Procs |-> IF p = Ctor THEN "start" ELSE IF p \in Tasks THEN "unborn" ELSE "idle"]
  /\ err = [p \in Procs |-> ErrNil]
  /\ ev = [p \in Procs |-> NoEvent]
  /\ clret = [p \in Procs |-> "done"]
  /\ ctorErr = ErrNil
  /\ body = [p \in {Ctor} \cup Tasks |-> 0]
  /\ rd = [t \in Tasks |-> {}]
  /\ decoders = {}
  /\ noContent = {}
  /\ released = {}
  /\ loaded = [p \in Procs |-> 0]
  /\ received = << >>
  /\ panic = "none"
  /\ hist = [attempts  |-> 0,          \* requests that have ended (HttpConnectDown's apart)
             sleeps    |-> 0,          \* backoff waits made (counted up to MaxAttempts)
             lastHeader |-> NoHeader,  \* Last-Event-ID header of the last request
             teardowns |-> 0,          \* Close() calls that got the closing right
             decodes   |-> 0,          \* events decoded
             noopSet   |-> FALSE,      \* setReadyState was called on a Closed source
             terminal  |-> FALSE,      \* mustReconnect has answered false
             directive |-> -1,         \* delay of the last retry directive decoded (-1: none)
             wait      |-> -1]         \* duration of the backoff wait made since the last request (-1: none)

\* NewEventSource has returned (the source and ctorErr)
Returned == pc[Ctor] = "done"

\* a panic ends the program: no goroutine takes a step after it
Running == panic = "none"

\* connect: es.setReadyState(Connecting), then connectOnce
Connect ==
  /\ Running
  /\ pc[Ctor] = "start"
  /\ readyState' = setReadyState(readyState, Connecting)
  /\ pc' = [pc EXCEPT ![Ctor] = "c_http"]
  /\ hist' = [hist EXCEPT !.noopSet = @ \/ readyState = Closed]
  /\ UNCHANGED <<resp, d, retry, lastEventID, outClosed, err, ev, clret, ctorErr,
                 body, rd, decoders, noContent, released, loaded, received, panic>>

\* connectOnce: es.resp, err = es.doHttpConnect().  On an error connect keeps it
\* in its own err and calls reconnect(), and the reconnect loop tests it.  The
\* server answers MaxAttempts requests; a request made after that stays pending
HttpConnect(p, o) ==
  /\ Running
  /\ pc[p] \in {"c_http", "r_http"}
  /\ hist.attempts < MaxAttempts
  /\ LET id == hist.attempts + 1
         e  == ConnectErr(o)
     IN /\ resp' = IF o.status = 0 THEN NoResp ELSE [id |-> id, status |-> o.status]
        /\ noContent' = IF o.status = StatusNoContent THEN noContent \cup {id} ELSE noContent
        /\ pc' = [pc EXCEPT ![p] = IF e = ErrNil
                                     THEN (IF pc[p] = "c_http" THEN "c_open" ELSE "r_open")
                                     ELSE (IF pc[p] = "c_http" THEN "r_start" ELSE "r_loop")]
        /\ err' = [err EXCEPT ![p] = IF pc[p] = "r_http" THEN e ELSE ErrNil]
        /\ ctorErr' = IF pc[p] = "c_http" THEN e ELSE ctorErr
        /\ hist' = [hist EXCEPT !.attempts = id,
                                !.wait = -1,
                                !.lastHeader = RequestLastEventID(lastEventID)]
  /\ UNCHANGED <<readyState, d, retry, lastEventID, outClosed, ev, clret,
                 body, rd, decoders, released, loaded, received, panic>>

\* connectOnce while the server is down: the request fails with a transport
\* error (doHttpConnect returns a nil response and the error of
\* http.DefaultClient.Do).  These requests can go on for ever, so they are not
\* numbered
HttpConnectDown(p) ==
  /\ Running
  /\ pc[p] \in {"c_http", "r_http"}
  /\ resp' = NoResp
  /\ pc' = [pc EXCEPT ![p] = IF pc[p] = "c_http" THEN "r_start" ELSE "r_loop"]
  /\ err' = [err EXCEPT ![p] = IF pc[p] = "r_http" THEN ErrOther ELSE ErrNil]
  /\ ctorErr' = IF pc[p] = "c_http" THEN ErrOther ELSE ctorErr
  /\ hist' = [hist EXCEPT !.wait = -1,
                          !.lastHeader = RequestLastEventID(lastEventID)]
  /\ UNCHANGED <<readyState, d, retry, lastEventID, outClosed, ev, clret,
                 body, rd, decoders, noContent, released, loaded, received, panic>>

\* connectOnce after a nil error: "es.setReadyState(Open)"
OpenStep(p) ==
  /\ Running
  /\ pc[p] \in {"c_open", "r_open"}
  /\ readyState' = setReadyState(readyState, Open)
  /\ pc' = [pc EXCEPT ![p] = IF pc[p] = "c_open" THEN "c_dec" ELSE "r_dec"]
  /\ hist' = [hist EXCEPT !.noopSet = @ \/ readyState = Closed]
  /\ UNCHANGED <<resp, d, retry, lastEventID, outClosed, err, ev, clret, ctorErr,
                 body, rd, decoders, noContent, released, loaded, received, panic>>

\* connectOnce: "NewDecoder(es.resp.Body)": es.resp is read again, and this
\* panics when another goroutine's failed request has made it nil; the new
\* decoder is not yet stored
NewDecoderStep(p) ==
  /\ Running
  /\ pc[p] \in {"c_dec", "r_dec"}
  /\ IF resp = NoResp
       THEN /\ panic' = "nil_deref"
            /\ UNCHANGED <<pc, body, decoders>>
       ELSE /\ body' = [body EXCEPT ![p] = resp.id]
            /\ decoders' = decoders \cup {resp.id}
            /\ pc' = [pc EXCEPT ![p] = IF pc[p] = "c_dec" THEN "c_store" ELSE "r_store"]
            /\ UNCHANGED panic
  /\ UNCHANGED <<readyState, resp, d, retry, lastEventID, outClosed, err, ev, clret, ctorErr,
                 rd, noContent, released, loaded, received, hist>>

\* connectOnce: "es.d = <the new decoder>".  A task waiting in Decode may have
\* made its call before or after this store
StoreDecoderStep(p) ==
  /\ Running
  /\ pc[p] \in {"c_store", "r_store"}
  /\ d' = body[p]
  /\ rd' = [t \in Tasks |-> IF pc[t] = "decode" THEN rd[t] \cup {body[p]} ELSE rd[t]]
  /\ body' = [body EXCEPT ![p] = 0]
  /\ pc' = [pc EXCEPT ![p] = IF pc[p] = "c_store" THEN "c_go" ELSE "r_go"]
  /\ UNCHANGED <<readyState, resp, retry, lastEventID, outClosed, err, ev, clret, ctorErr,
                 decoders, noContent, released, loaded, received, panic, hist>>

\* connectOnce: "go es.consume()"; connect then returns nil and the reconnect
\* loop goes round.  The new goroutine reads es.d when it calls Decode
GoConsume(p) ==
  /\ Running
  /\ pc[p] \in {"c_go", "r_go"}
  /\ pc' = [pc EXCEPT ![p] = IF pc[p] = "c_go" THEN "done" ELSE "r_loop",
                          ![NextTask] = "decode"]
  /\ rd' = [rd EXCEPT ![NextTask] = {d}]
  /\ UNCHANGED <<readyState, resp, d, retry, lastEventID, outClosed, err, ev, clret, ctorErr,
                 body, decoders, noContent, released, loaded, received, panic, hist>>

\* reconnect: es.setReadyState(Connecting); the named result err starts nil
ReconnectStart(p) ==
  /\ Running
  /\ pc[p] = "r_start"
  /\ readyState' = setReadyState(readyState, Connecting)
  /\ err' = [err EXCEPT ![p] = ErrNil]
  /\ pc' = [pc EXCEPT ![p] = "r_loop"]
  /\ hist' = [hist EXCEPT !.noopSet = @ \/ readyState = Closed]
  /\ UNCHANGED <<resp, d, retry, lastEventID, outClosed, ev, clret, ctorErr,
                 body, rd, decoders, noContent, released, loaded, received, panic>>

\* mustReconnect, called by reconnect or by consume: the switch on err and
\* "es.resp != nil &&" have found an error that is neither case and a response,
\* and es.resp.StatusCode is still to be read
MustReconnectTest(p) ==
  /\ Running
  /\ pc[p] \in {"r_loop", "d_err"}
  /\ ReadsStatus(err[p], resp)
  /\ pc' = [pc EXCEPT ![p] = IF pc[p] = "r_loop" THEN "r_status" ELSE "d_status"]
  /\ UNCHANGED <<readyState, resp, d, retry, lastEventID, outClosed, err, ev, clret, ctorErr,
                 body, rd, decoders, noContent, released, loaded, received, panic, hist>>

\* reconnect: the loop condition "for es.mustReconnect(err) {" gets its answer,
\* from the switch, from a nil es.resp or from es.resp.StatusCode (this second
\* read of es.resp panics when another goroutine's failed request has made it
\* nil), and, when the loop ends, "if err != nil { es.Close() }; return".
\* Only connect reads the error reconnect returns, consume drops it
ReconnectLoop(p) ==
  /\ Running
  /\ pc[p] \in {"r_loop", "r_status"}
  /\ pc[p] = "r_loop" => ~ReadsStatus(err[p], resp)
  /\ IF pc[p] = "r_status" /\ resp = NoResp
       THEN /\ panic' = "nil_deref"
            /\ UNCHANGED <<pc, clret, err, ctorErr, hist>>
       ELSE LET m == mustReconnect(err[p], resp)
            IN /\ pc' = [pc EXCEPT ![p] = IF m THEN "r_sleep"
                                          ELSE IF err[p] # ErrNil \/ p # Ctor THEN "cl_acquire"
                                          ELSE "done"]
               /\ clret' = [clret EXCEPT ![p] = IF ~m /\ err[p] # ErrNil THEN "r_ret" ELSE "done"]
               /\ err' = [err EXCEPT ![p] = IF ~m /\ p = Ctor THEN @ ELSE ErrNil]
               /\ ctorErr' = IF ~m /\ err[p] = ErrNil /\ p = Ctor THEN ErrNil ELSE ctorErr
               /\ hist' = [hist EXCEPT !.terminal = @ \/ ~m]
               /\ UNCHANGED panic
  /\ UNCHANGED <<readyState, resp, d, retry, lastEventID, outClosed, ev,
                 body, rd, decoders, noContent, released, loaded, received>>

\* reconnect: "time.Sleep(es.retry)": es.retry is read when the wait starts, and
\* the goroutine then calls connectOnce
ReconnectSleep(p) ==
  /\ Running
  /\ pc[p] = "r_sleep"
  /\ pc' = [pc EXCEPT ![p] = "r_http"]
  /\ hist' = [hist EXCEPT !.sleeps = IF @ < MaxAttempts THEN @ + 1 ELSE @,
                          !.wait = SleepDuration(retry)]
  /\ UNCHANGED <<readyState, resp, d, retry, lastEventID, outClosed, err, ev, clret, ctorErr,
                 body, rd, decoders, noContent, released, loaded, received, panic>>

\* where a process goes when its Close() returns: reconnect's Close() returns
\* into connect (NewEventSource returns err) or into consume (es.Close(); return)
AfterClosePc(p) == IF clret[p] = "r_ret" /\ p # Ctor THEN "cl_acquire" ELSE "done"

AfterCloseCtorErr(p) == IF p = Ctor THEN err[p] ELSE ctorErr

\* Close: "if es.acquireClosingRight() {"
CloseAcquire(p) ==
  /\ Running
  /\ pc[p] = "cl_acquire"
  /\ IF acquireClosingRight(readyState)
       THEN /\ readyState' = Closing
            /\ pc' = [pc EXCEPT ![p] = "cl_check"]
            /\ hist' = [hist EXCEPT !.teardowns = @ + 1]
            /\ UNCHANGED <<clret, ctorErr>>
       ELSE /\ pc' = [pc EXCEPT ![p] = AfterClosePc(p)]
            /\ clret' = [clret EXCEPT ![p] = "done"]
            /\ ctorErr' = AfterCloseCtorErr(p)
            /\ UNCHANGED <<readyState, hist>>
  /\ UNCHANGED <<resp, d, retry, lastEventID, outClosed, err, ev,
                 body, rd, decoders, noContent, released, loaded, received, panic>>

\* Close: "if es.resp != nil {"
CloseCheck(p) ==
  /\ Running
  /\ pc[p] = "cl_check"
  /\ pc' = [pc EXCEPT ![p] = IF resp # NoResp THEN "cl_release" ELSE "cl_out"]
  /\ UNCHANGED <<readyState, resp, d, retry, lastEventID, outClosed, err, ev, clret, ctorErr,
                 body, rd, decoders, noContent, released, loaded, received, panic, hist>>

\* Close: "es.resp.Body.Close()", the load of es.resp: es.resp is read again,
\* and this panics when another goroutine's failed request has made it nil
\* since the test
CloseRelease(p) ==
  /\ Running
  /\ pc[p] = "cl_release"
  /\ IF resp = NoResp
       THEN /\ panic' = "nil_deref"
            /\ UNCHANGED <<pc, loaded>>
       ELSE /\ loaded' = [loaded EXCEPT ![p] = resp.id]
            /\ pc' = [pc EXCEPT ![p] = "cl_body"]
            /\ UNCHANGED panic
  /\ UNCHANGED <<readyState, resp, d, retry, lastEventID, outClosed, err, ev, clret, ctorErr,
                 body, rd, decoders, noContent, released, received, hist>>

\* Close: "es.resp.Body.Close()", the call: the body closed is that of the
\* response loaded, which need no longer be es.resp
CloseBody(p) ==
  /\ Running
  /\ pc[p] = "cl_body"
  /\ released' = released \cup {loaded[p]}
  /\ loaded' = [loaded EXCEPT ![p] = 0]
  /\ pc' = [pc EXCEPT ![p] = "cl_out"]
  /\ UNCHANGED <<readyState, resp, d, retry, lastEventID, outClosed, err, ev, clret, ctorErr,
                 body, rd, decoders, noContent, received, panic, hist>>

\* Close: "close(es.out)"; closing a closed channel panics
CloseOut(p) ==
  /\ Running
  /\ pc[p] = "cl_out"
  /\ IF outClosed
       THEN /\ panic' = "close_closed"
            /\ UNCHANGED <<outClosed, pc>>
       ELSE /\ outClosed' = TRUE
            /\ pc' = [pc EXCEPT ![p] = "cl_set"]
            /\ UNCHANGED panic
  /\ UNCHANGED <<readyState, resp, d, retry, lastEventID, err, ev, clret, ctorErr,
                 body, rd, decoders, noContent, released, loaded, received, hist>>

\* Close: "es.setReadyState(Closed)" and return
CloseSet(p) ==
  /\ Running
  /\ pc[p] = "cl_set"
  /\ readyState' = setReadyState(readyState, Closed)
  /\ pc' = [pc EXCEPT ![p] = AfterClosePc(p)]
  /\ clret' = [clret EXCEPT ![p] = "done"]
  /\ ctorErr' = AfterCloseCtorErr(p)
  /\ hist' = [hist EXCEPT !.noopSet = @ \/ readyState = Closed]
  /\ UNCHANGED <<resp, d, retry, lastEventID, outClosed, err, ev,
                 body, rd, decoders, noContent, released, loaded, received, panic>>

\* consume: "es.d.Decode()" reads es.d when the call starts and returns when the
\* stream has something: the decoder a task is reading is any that es.d has
\* held since the task finished its last step
Readable(p) == rd[p]

\* Decoder.Decode on the body of response b: the errors it can return.  A
\* released body fails the read and the body of a 204 response is empty
DecodeErrors(b) ==
  IF b \in released THEN {ErrBodyClosed}
  ELSE IF b \in noContent THEN {ErrEOF}
  ELSE DecodeErrs

\* the ids the server gives its next Message: none, or a fresh one.  Ids are
\* opaque to the client, so the server is taken to use "1" first and "2" after
NextIDs == {"", IF lastEventID = "" THEN "1" ELSE "2"}

\* Decoder.Decode on the body of response b: the events it can return
DecodeEvents(b) ==
  IF b \notin noContent /\ b \notin released /\ hist.decodes < MaxDecodes
    THEN {m \in Messages : m.ID \in NextIDs} \cup Directives
    ELSE {}

\* consume: "ev, err := es.d.Decode()" returns the event e, read from the body
\* of response b; the task holds it in its local ev
DecodeEvent(p, b, e) ==
  /\ Running
  /\ pc[p] = "decode"
  /\ b \in Readable(p)
  /\ e \in DecodeEvents(b)
  /\ ev' = [ev EXCEPT ![p] = Tagged(e, b)]
  /\ pc' = [pc EXCEPT ![p] = "got"]
  /\ rd' = [rd EXCEPT ![p] = {}]
  /\ hist' = [hist EXCEPT !.decodes = @ + 1,
                          !.directive = IF e \in Directives THEN e.retry ELSE @]
  /\ UNCHANGED <<readyState, resp, d, retry, lastEventID, outClosed, err, clret, ctorErr,
                 body, decoders, noContent, released, loaded, received, panic>>

\* consume: "if ev.retry >= 0 { es.retry = ...; continue }": the directive sets
\* es.retry and the task calls Decode again, reading es.d
HandleDirective(p) ==
  /\ Running
  /\ pc[p] = "got"
  /\ IsRetry(ev[p])
  /\ retry' = RetryAfterDirective(retry, ev[p])
  /\ ev' = [ev EXCEPT ![p] = NoEvent]
  /\ pc' = [pc EXCEPT ![p] = "decode"]
  /\ rd' = [rd EXCEPT ![p] = {d}]
  /\ UNCHANGED <<readyState, resp, d, lastEventID, outClosed, err, clret, ctorErr,
                 body, decoders, noContent, released, loaded, received, panic, hist>>

\* consume: "if ev.ID != "" { es.setLastEventID(ev.ID) }", and the task goes on
\* to "es.out <- ev"
HandleMessage(p) ==
  /\ Running
  /\ pc[p] = "got"
  /\ ~IsRetry(ev[p])
  /\ lastEventID' = NewLastEventID(lastEventID, ev[p])
  /\ pc' = [pc EXCEPT ![p] = "send"]
  /\ UNCHANGED <<readyState, resp, d, retry, outClosed, err, ev, clret, ctorErr,
                 body, rd, decoders, noContent, released, loaded, received, panic, hist>>

\* consume: "ev, err := es.d.Decode()" returns the error e, read from the body
\* of response b; the task holds it in its local err
DecodeError(p, b, e) ==
  /\ Running
  /\ pc[p] = "decode"
  /\ b \in Readable(p)
  /\ e \in DecodeErrors(b)
  /\ err' = [err EXCEPT ![p] = e]
  /\ pc' = [pc EXCEPT ![p] = "d_err"]
  /\ rd' = [rd EXCEPT ![p] = {}]
  /\ UNCHANGED <<readyState, resp, d, retry, lastEventID, outClosed, ev, clret, ctorErr,
                 body, decoders, noContent, released, loaded, received, panic, hist>>

\* consume: "if es.mustReconnect(err) { err = es.reconnect() }; es.Close();
\* return": mustReconnect gets its answer as in the reconnect loop
HandleDecodeError(p) ==
  /\ Running
  /\ pc[p] \in {"d_err", "d_status"}
  /\ pc[p] = "d_err" => ~ReadsStatus(err[p], resp)
  /\ IF pc[p] = "d_status" /\ resp = NoResp
       THEN /\ panic' = "nil_deref"
            /\ UNCHANGED <<pc, clret, err, hist>>
       ELSE /\ pc' = [pc EXCEPT ![p] = AfterDecodeError(err[p], resp)]
            /\ clret' = [clret EXCEPT ![p] = "done"]
            /\ err' = [err EXCEPT ![p] = ErrNil]
            /\ hist' = [hist EXCEPT !.terminal = @ \/ ~mustReconnect(err[p], resp)]
            /\ UNCHANGED panic
  /\ UNCHANGED <<readyState, resp, d, retry, lastEventID, outClosed, ev, ctorErr,
                 body, rd, decoders, noContent, released, loaded, received>>

\* consume: "es.out <- ev" completes when the consumer receives from Events()
Receive(p) ==
  /\ Running
  /\ pc[p] = "send"
  /\ ~outClosed
  /\ Returned
  /\ received' = Append(received, Untagged(ev[p]))
  /\ ev' = [ev EXCEPT ![p] = NoEvent]
  /\ pc' = [pc EXCEPT ![p] = "decode"]
  /\ rd' = [rd EXCEPT ![p] = {d}]
  /\ UNCHANGED <<readyState, resp, d, retry, lastEventID, outClosed, err, clret,
                 ctorErr, body, decoders, noContent, released, loaded, panic, hist>>

\* consume: "es.out <- ev" on a closed channel panics
SendOnClosed(p) ==
  /\ Running
  /\ pc[p] = "send"
  /\ outClosed
  /\ panic' = "send_closed"
  /\ UNCHANGED <<readyState, resp, d, retry, lastEventID, outClosed, pc, err, ev, clret,
                 ctorErr, body, rd, decoders, noContent, released, loaded, received, hist>>

\* a user goroutine calls Close() on the source NewEventSource returned:
\* "if es.acquireClosingRight() {"
UserClose(c) ==
  /\ Running
  /\ pc[c] = "idle"
  /\ Returned
  /\ IF acquireClosingRight(readyState)
       THEN /\ readyState' = Closing
            /\ pc' = [pc EXCEPT ![c] = "cl_check"]
            /\ hist' = [hist EXCEPT !.teardowns = @ + 1]
       ELSE /\ pc' = [pc EXCEPT ![c] = "done"]
            /\ UNCHANGED <<readyState, hist>>
  /\ UNCHANGED <<resp, d, retry, lastEventID, outClosed, err, ev, clret,
                 ctorErr, body, rd, decoders, noContent, released, loaded, received, panic>>

Next ==
  \/ Connect
  \/ \E p \in {Ctor} \cup Tasks, o \in Outcomes : HttpConnect(p, o)
  \/ \E p \in {Ctor} \cup Tasks : OpenStep(p)
  \/ \E p \in {Ctor} \cup Tasks : NewDecoderStep(p)
  \/ \E p \in {Ctor} \cup Tasks : StoreDecoderStep(p)
  \/ \E p \in {Ctor} \cup Tasks : GoConsume(p)
  \/ \E p \in {Ctor} \cup Tasks : ReconnectStart(p)
  \/ \E p \in {Ctor} \cup Tasks : MustReconnectTest(p)
  \/ \E p \in {Ctor} \cup Tasks : ReconnectLoop(p)
  \/ \E p \in {Ctor} \cup Tasks : ReconnectSleep(p)
  \/ \E p \in {Ctor} \cup Tasks : CloseAcquire(p)
  \/ \E p \in Procs : CloseCheck(p)
  \/ \E p \in Procs : CloseRelease(p)
  \/ \E p \in Procs : CloseBody(p)
  \/ \E p \in Procs : CloseOut(p)
  \/ \E p \in Procs : CloseSet(p)
  \/ \E p \in Tasks, b \in 1 .. MaxAttempts, e \in Messages \cup Directives : DecodeEvent(p, b, e)
  \/ \E p \in Tasks : HandleDirective(p)
  \/ \E p \in Tasks : HandleMessage(p)
  \/ \E p \in Tasks, b \in 1 .. MaxAttempts, e \in ReadErrs : DecodeError(p, b, e)
  \/ \E p \in Tasks : HandleDecodeError(p)
  \/ \E p \in Tasks : Receive(p)
  \/ \E p \in Tasks : SendOnClosed(p)
  \/ \E c \in Closers : UserClose(c)

Spec == Init /\ [][Next]_vars

\* connectOnce before the server is up: it has answered no request yet and
\* refuses this one
HttpConnectRefused(p) == hist.attempts = 0 /\ HttpConnectDown(p)

\* ---- a source constructed while the server is down ----
\* The server refuses any number of requests before it answers the first one,
\* and no user goroutine calls Close()
StartupNext ==
  \/ Connect
  \/ \E p \in {Ctor} \cup Tasks : HttpConnectRefused(p)
  \/ \E p \in {Ctor} \cup Tasks, o \in Outcomes : HttpConnect(p, o)
  \/ \E p \in {Ctor} \cup Tasks : OpenStep(p)
  \/ \E p \in {Ctor} \cup Tasks : NewDecoderStep(p)
  \/ \E p \in {Ctor} \cup Tasks : StoreDecoderStep(p)
  \/ \E p \in {Ctor} \cup Tasks : GoConsume(p)
  \/ \E p \in {Ctor} \cup Tasks : ReconnectStart(p)
  \/ \E p \in {Ctor} \cup Tasks : MustReconnectTest(p)
  \/ \E p \in {Ctor} \cup Tasks : ReconnectLoop(p)
  \/ \E p \in {Ctor} \cup Tasks : ReconnectSleep(p)
  \/ \E p \in {Ctor} \cup Tasks : CloseAcquire(p)
  \/ \E p \in {Ctor} \cup Tasks : CloseCheck(p)
  \/ \E p \in {Ctor} \cup Tasks : CloseRelease(p)
  \/ \E p \in {Ctor} \cup Tasks : CloseBody(p)
  \/ \E p \in {Ctor} \cup Tasks : CloseOut(p)
  \/ \E p \in {Ctor} \cup Tasks : CloseSet(p)
  \/ \E p \in Tasks, b \in 1 .. MaxAttempts, e \in Messages \cup Directives : DecodeEvent(p, b, e)
  \/ \E p \in Tasks : HandleDirective(p)
  \/ \E p \in Tasks : HandleMessage(p)
  \/ \E p \in Tasks, b \in 1 .. MaxAttempts, e \in ReadErrs : DecodeError(p, b, e)
  \/ \E p \in Tasks : HandleDecodeError(p)
  \/ \E p \in Tasks : Receive(p)
  \/ \E p \in Tasks : SendOnClosed(p)

StartupSpec == Init /\ [][StartupNext]_vars

\* ---- a source whose streams carry no event ----
\* As StartupSpec, with every connection ending in a read error before the
\* server has sent an event
RetryNext ==
  \/ Connect
  \/ \E p \in {Ctor} \cup Tasks : HttpConnectRefused(p)
  \/ \E p \in {Ctor} \cup Tasks, o \in Outcomes : HttpConnect(p, o)
  \/ \E p \in {Ctor} \cup Tasks : OpenStep(p)
  \/ \E p \in {Ctor} \cup Tasks : NewDecoderStep(p)
  \/ \E p \in {Ctor} \cup Tasks : StoreDecoderStep(p)
  \/ \E p \in {Ctor} \cup Tasks : GoConsume(p)
  \/ \E p \in {Ctor} \cup Tasks : ReconnectStart(p)
  \/ \E p \in {Ctor} \cup Tasks : MustReconnectTest(p)
  \/ \E p \in {Ctor} \cup Tasks : ReconnectLoop(p)
  \/ \E p \in {Ctor} \cup Tasks : ReconnectSleep(p)
  \/ \E p \in {Ctor} \cup Tasks : CloseAcquire(p)
  \/ \E p \in {Ctor} \cup Tasks : CloseCheck(p)
  \/ \E p \in {Ctor} \cup Tasks : CloseRelease(p)
  \/ \E p \in {Ctor} \cup Tasks : CloseBody(p)
  \/ \E p \in {Ctor} \cup Tasks : CloseOut(p)
  \/ \E p \in {Ctor} \cup Tasks : CloseSet(p)
  \/ \E p \in Tasks, b \in 1 .. MaxAttempts, e \in ReadErrs : DecodeError(p, b, e)
  \/ \E p \in Tasks : HandleDecodeError(p)

RetrySpec == Init /\ [][RetryNext]_vars

\* the steps a goroutine of the source takes on its own: a runnable goroutine
\* is scheduled, time.Sleep returns and a request ends with a response or an
\* error.  Decode and the send on es.out wait for the server and the consumer
OwnStep(p) ==
  \/ p = Ctor /\ Connect
  \/ HttpConnectRefused(p)
  \/ \E o \in Outcomes : HttpConnect(p, o)
  \/ OpenStep(p)
  \/ NewDecoderStep(p)
  \/ StoreDecoderStep(p)
  \/ GoConsume(p)
  \/ ReconnectStart(p)
  \/ MustReconnectTest(p)
  \/ ReconnectLoop(p)
  \/ ReconnectSleep(p)
  \/ p \in Tasks /\ HandleDecodeError(p)
  \/ CloseAcquire(p)
  \/ CloseCheck(p)
  \/ CloseRelease(p)
  \/ CloseBody(p)
  \/ CloseOut(p)
  \/ CloseSet(p)

FairRetrySpec == RetrySpec /\ \A p \in {Ctor} \cup Tasks : WF_vars(OwnStep(p))

\* ---- a source whose server goes down now and then ----
\* Any number of requests fail at the transport, before and between the ones
\* the server answers, and no user goroutine calls Close()
OutageNext ==
  \/ Connect
  \/ \E p \in {Ctor} \cup Tasks : HttpConnectDown(p)
  \/ \E p \in {Ctor} \cup Tasks, o \in Outcomes : HttpConnect(p, o)
  \/ \E p \in {Ctor} \cup Tasks : OpenStep(p)
  \/ \E p \in {Ctor} \cup Tasks : NewDecoderStep(p)
  \/ \E p \in {Ctor} \cup Tasks : StoreDecoderStep(p)
  \/ \E p \in {Ctor} \cup Tasks : GoConsume(p)
  \/ \E p \in {Ctor} \cup Tasks : ReconnectStart(p)
  \/ \E p \in {Ctor} \cup Tasks : MustReconnectTest(p)
  \/ \E p \in {Ctor} \cup Tasks : ReconnectLoop(p)
  \/ \E p \in {Ctor} \cup Tasks : ReconnectSleep(p)
  \/ \E p \in {Ctor} \cup Tasks : CloseAcquire(p)
  \/ \E p \in {Ctor} \cup Tasks : CloseCheck(p)
  \/ \E p \in {Ctor} \cup Tasks : CloseRelease(p)
  \/ \E p \in {Ctor} \cup Tasks : CloseBody(p)
  \/ \E p \in {Ctor} \cup Tasks : CloseOut(p)
  \/ \E p \in {Ctor} \cup Tasks : CloseSet(p)
  \/ \E p \in Tasks, b \in 1 .. MaxAttempts, e \in Messages \cup Directives : DecodeEvent(p, b, e)
  \/ \E p \in Tasks : HandleDirective(p)
  \/ \E p \in Tasks : HandleMessage(p)
  \/ \E p \in Tasks, b \in 1 .. MaxAttempts, e \in ReadErrs : DecodeError(p, b, e)
  \/ \E p \in Tasks : HandleDecodeError(p)
  \/ \E p \in Tasks : Receive(p)
  \/ \E p \in Tasks : SendOnClosed(p)

OutageSpec == Init /\ [][OutageNext]_vars

TypeOK ==
  /\ readyState \in {Connecting, Open, Closing, Closed}
  /\ d \in 0 .. MaxAttempts
  /\ retry \in {defaultRetry} \cup RetryDelays
  /\ lastEventID \in EventIDs
  /\ Len(received) <= MaxDecodes
\* ---- claims ----

\* a user goroutine has called Close()
UserClosed == \E c \in Closers : pc[c] # "idle"

\* every goroutine of the source has returned
Quiescent == panic = "none" /\ \A p \in {Ctor} \cup Tasks : pc[p] \in {"done", "unborn"}

\* C1: in every interleaving of Close() calls with the decode task, teardown
\* happens exactly once: at most one Close() gets the closing right (and so
\* releases the transport), and the Events stream is never closed twice.
C1_TeardownOnce == hist.teardowns <= 1 /\ panic # "close_closed"

\* C2: Closed is absorbing: once the ready-state is Closed it stays Closed,
\* whatever step comes next (setReadyState from a reconnect, further events,
\* further Close() calls).
C2_ClosedAbsorbing == [][readyState = Closed => readyState' = Closed]_vars

\* the source is Closed and setReadyState has been called on it since
C2_Witness == readyState = Closed /\ hist.noopSet

\* C3: the source is closed only by a user Close() or by a terminal
\* classification; when a decode task's reconnect attempt succeeds before
\* either has happened, the ready-state is Open again, and while the task sets
\* up the decode task of the new connection the program is alive and the
\* Events stream is open, so that the Messages of the new connection can be
\* delivered.
C3_ClosedOnlyByCloseOrTerminal ==
  /\ [](outClosed \/ readyState \in {Closing, Closed} => UserClosed \/ hist.terminal)
  /\ [][\A p \in Tasks :
          (pc[p] = "r_open" /\ pc'[p] = "r_dec" /\ ~UserClosed /\ ~hist.terminal)
            => readyState' = Open /\ ~outClosed']_vars
  /\ [](\A p \in Tasks :
          (pc[p] \in {"r_dec", "r_store", "r_go"} /\ ~UserClosed /\ ~hist.terminal)
            => Running /\ ~outClosed)

\* C4: NewEventSource returns a nil error only after a connect attempt has
\* succeeded, and a non-nil error only after a terminal classification, with
\* the source Closed; a terminal classification never gives a nil error
\* without a successful attempt.
C4_ConstructorContract ==
  /\ Returned /\ ctorErr = ErrNil => decoders # {}
  /\ Returned /\ ctorErr # ErrNil => hist.terminal /\ readyState = Closed

\* C5: after a 204 response the source ends up Closed with its Events stream
\* closed: once every goroutine of the source has returned, nothing is left
\* to close it, so it must be Closed by then.
C5_NoContentCloses ==
  noContent # {} /\ Quiescent => readyState = Closed /\ outClosed

\* C6: a first response with status 200 and a wrong Content-Type makes
\* NewEventSource fail at once with ErrContentType: one request, no backoff
\* wait, and the source Closed when it returns.
C6_ContentTypeFailsFast ==
  /\ (pc[Ctor] \notin {"start", "c_http"} /\ 1 \notin decoders
        /\ hist.attempts = 1 /\ ctorErr = ErrContentType /\ resp.status = 200)
       => hist.sleeps = 0 /\ pc[Ctor] # "r_http"
  /\ (Returned /\ hist.attempts = 1 /\ ctorErr = ErrContentType)
       => hist.sleeps = 0 /\ readyState = Closed

\* the classification table of the specification
ClassificationTable(e, r) ==
  IF e = ErrContentType THEN FALSE
  ELSE IF r.status = StatusNoContent THEN FALSE
  ELSE TRUE

\* ---- mustReconnect on every combination of error and last response ----

\* the errors mustReconnect can be given
ClassifyErrs == {ErrNil, ErrContentType, ErrUnexpectedEOF, ErrEOF, ErrOther, ErrBodyClosed}

\* the values es.resp can have when it is called
ClassifyResps == {NoResp} \cup [id : 1 .. MaxAttempts,
                               status : {200, StatusNoContent, 404, 500}]

\* a goroutine of the source calls es.mustReconnect(e) while es.resp is r; its
\* position records the answer
Classify(p, e, r) ==
  /\ resp' = r
  /\ err' = [q \in Procs |-> IF q = p THEN e ELSE ErrNil]
  /\ pc' = [q \in Procs |-> IF q = p
                              THEN (IF mustReconnect(e, r) THEN "retry" ELSE "terminal")
                              ELSE "idle"]
  /\ UNCHANGED <<readyState, d, retry, lastEventID, outClosed, ev, clret, ctorErr,
                 body, rd, decoders, noContent, released, loaded, received, panic, hist>>

ClassifyNext == \E p \in {Ctor} \cup Tasks, e \in ClassifyErrs, r \in ClassifyResps : Classify(p, e, r)

ClassifySpec == Init /\ [][ClassifyNext]_vars

\* C7: mustReconnect answers as the classification table says for every
\* combination of error and last status: ErrContentType and a last status of
\* 204 are terminal whatever the error (io.ErrUnexpectedEOF and nil
\* included), everything else is retried.
C7_Classification ==
  \A p \in {Ctor} \cup Tasks :
    pc[p] \in {"retry", "terminal"}
      => (pc[p] = "retry" <=> ClassificationTable(err[p], resp))

\* C8: a request made after a Message with a non-empty id has been delivered
\* carries the Last-Event-ID header with the value of LastEventID(); a request
\* made when no id has been recorded carries no such header.
C8_LastEventIDHeader ==
  [][hist.attempts' > hist.attempts
       => /\ (\E i \in 1 .. Len(received) : received[i].ID # "")
               => lastEventID # "" /\ hist.lastHeader' = lastEventID
          /\ lastEventID = "" => hist.lastHeader' = NoHeader]_vars

\* C9: once the ready-state is Closed no request is issued and no decode task
\* is started.
C9_NoAttemptAfterClosed ==
  [][readyState = Closed
       => /\ hist.attempts' = hist.attempts
          /\ \A t \in Tasks : pc[t] = "unborn" => pc'[t] = "unborn"]_vars

\* C10: a retry directive is never sent on the Events stream: every value the
\* consumer has received, and every value a decode task is sending, is a
\* Message.
C10_OnlyMessagesDelivered ==
  /\ \A i \in 1 .. Len(received) : received[i] \in Messages
  /\ \A t \in Tasks : pc[t] = "send" => Untagged(ev[t]) \in Messages

\* a retry directive with delay 0 has been decoded and the consumer has
\* received a Message
C10_Witness == retry = 0 /\ Len(received) >= 1

\* the wait the code makes next: the delay of the last retry directive
\* decoded, or the default
ExpectedWait == IF hist.directive = -1 THEN defaultRetry ELSE hist.directive

\* C11: the wait made before a reconnection attempt is the delay of the most
\* recent retry directive decoded, or 1000 ms if none has been; and es.retry
\* changes only when a task handles a directive, to the delay of that
\* directive.
C11_WaitIsLastDirective ==
  /\ [][(\E p \in {Ctor} \cup Tasks : pc[p] = "r_sleep" /\ pc'[p] = "r_http")
          => hist.wait' = ExpectedWait]_vars
  /\ [][retry' # retry
          => \E t \in Tasks : /\ pc[t] = "got" /\ pc'[t] = "decode"
                              /\ ev[t].retry \in RetryDelays
                              /\ retry' = ev[t].retry]_vars

\* the decode tasks blocked in "es.out <- ev" with a decoded Message
Waiting == {t \in Tasks : pc[t] = "send"}

\* C12: delivery is backpressured: at most one decoded Message is waiting
\* undelivered at any time (so the consumer receives the Messages in the
\* order they were decoded).
C12_OneMessageWaiting == Cardinality(Waiting) <= 1

\* the decode tasks in their decode-and-deliver loop
Decoding == {t \in Tasks : pc[t] \in {"decode", "send"}}

\* the goroutines inside connectOnce
Attempting == {p \in {Ctor} \cup Tasks : pc[p] \in {"c_http", "r_http", "c_open", "r_open", "c_dec", "r_dec",
                                                "c_store", "r_store", "c_go", "r_go"}}

\* C13: at every moment at most one decode task is in its decode-and-deliver
\* loop and at most one connect attempt is in progress.
C13_OneTaskOneAttempt ==
  /\ Cardinality(Decoding) <= 1
  /\ Cardinality(Attempting) <= 1

\* the ready-state changes of the state machine
Transitions ==
  {<<Connecting, Open>>, <<Open, Connecting>>, <<Connecting, Closing>>,
   <<Open, Closing>>, <<Closing, Closed>>}

\* C14: every change of the ready-state follows the state machine; in
\* particular once it is Closing its only next value is Closed.
C14_StateMachine ==
  [][readyState' # readyState => <<readyState, readyState'>> \in Transitions]_vars

\* goroutine p is in the reconnect loop after an attempt that got no response
\* and no content-type error: the classification is retryable
RetryableFailure(p) ==
  /\ resp = NoResp
  /\ \/ pc[p] = "r_start"
     \/ pc[p] = "r_loop" /\ err[p] \in {ErrNil, ErrOther}

\* C15: there is no attempt cap.  After a retryable failure the goroutine in
\* the reconnect loop always makes another attempt (unless another
\* goroutine's request is answered first, or a panic has ended the program),
\* from the first attempt of NewEventSource on:
\* while the server answers nothing the constructor attempts again and again.
\* The loop is left only on a terminal classification.
C15_RetryForever ==
  /\ \A p \in {Ctor} \cup Tasks :
       RetryableFailure(p) ~> (pc[p] = "r_http" \/ resp # NoResp \/ ~Running)
  /\ []<>(hist.attempts > 0 \/ pc[Ctor] = "r_http")
  /\ [][\A p \in {Ctor} \cup Tasks :
          (pc[p] \in {"r_loop", "r_status"} /\ pc'[p] \notin {"r_loop", "r_status", "r_sleep"})
            => (err[p] = ErrContentType \/ resp.status = StatusNoContent)]_vars

\* the server has answered nothing yet and the constructor is about to make
\* another request after as many waits as the model counts
C15_Witness ==
  /\ hist.attempts = 0
  /\ hist.sleeps = MaxAttempts
  /\ pc[Ctor] = "r_http"
  /\ ctorErr = ErrOther

\* C16: LastEventID() never runs ahead of the consumer: it is empty or the id
\* of the most recent Message with a non-empty id that the consumer has
\* received from Events().
C16_LastEventIDDelivered ==
  \/ lastEventID = ""
  \/ \E i \in 1 .. Len(received) :
       /\ received[i].ID = lastEventID
       /\ \A j \in (i + 1) .. Len(received) : received[j].ID = ""

\* C17: lastEventID changes only in the step that handles a Message with a
\* non-empty id, and then to exactly that id; a Message with an empty id, a
\* retry directive, a decode failure, a connect attempt and Close() leave it
\* unchanged.
C17_LastEventIDFrame ==
  /\ [][lastEventID' # lastEventID
          => \E t \in Tasks : /\ pc[t] = "got" /\ pc'[t] = "send"
                              /\ ev[t].ID # ""
                              /\ lastEventID' = ev[t].ID]_vars
  /\ [][\A t \in Tasks :
          (pc[t] = "got" /\ pc'[t] = "send")
            => lastEventID' = (IF ev[t].ID # "" THEN ev[t].ID ELSE lastEventID)]_vars

\* the consumer received a Message with id "1" and then one with no id, and
\* lastEventID is still "1"
C17_Witness ==
  /\ Len(received) = 2
  /\ received[1].ID = "1"
  /\ received[2].ID = ""
  /\ lastEventID = "1"

\* C18: the decode task never sends on the Events stream after it has been
\* closed, and the stream is never closed while a decode task is blocked
\* delivering a Message.
C18_NoSendOnClosed ==
  /\ panic # "send_closed"
  /\ \A t \in Tasks : pc[t] = "send" => ~outClosed

\* response bodies the source has obtained: those a decoder was made for and
\* those of the 204 responses
Bodies == decoders \cup noContent

\* C19: transport handles do not leak: at most one response body the source
\* has obtained is unreleased at any time, and once the ready-state is Closed
\* every one of them has been released.
C19_NoBodyLeak ==
  /\ Cardinality(Bodies \ released) <= 1
  /\ readyState = Closed => Bodies \subseteq released

\* C20: after the user has called Close(), a decode task that is unblocked by
\* the transport release stops: its Decode fails on the released body and the
\* task goes on to Close() and returns, it does not decode, deliver or
\* reconnect further.
C20_TaskStopsAfterClose ==
  /\ [][\A t \in Tasks :
          (/\ UserClosed
           /\ pc[t] = "decode" /\ pc'[t] # "decode"
           /\ Readable(t) # {} /\ Readable(t) \subseteq released)
            => pc'[t] = "d_err" /\ err'[t] = ErrBodyClosed]_vars
  /\ [][\A t \in Tasks :
          (/\ UserClosed
           /\ pc[t] \in {"d_err", "d_status"} /\ pc'[t] \notin {"d_err", "d_status"}
           /\ err[t] = ErrBodyClosed)
            => pc'[t] = "cl_acquire"]_vars
====
